---- MODULE Spec2Model ----
(***************************************************************************)
(* Resource lifecycle of the 3D model viewer (src/app.js): the current     *)
(* model, the current environment map, the hologram material override and  *)
(* the asynchronous loads that feed them.  Every dispose() call the code   *)
(* makes is recorded, so that leaks and repeated disposals are visible.    *)
(*                                                                         *)
(* Lengths are integers in hundredths of a scene unit (0.1 = 10, 3 = 300,  *)
(* 10 = 1000); the assets below have boxes for which the halvings and the  *)
(* rescalings of the code are exact.  A scale factor is the fraction       *)
(* num/den; den = 0 is the IEEE Infinity JavaScript yields for 3 / 0.      *)
(* Angles are whole quarter turns, which keep bounding boxes exact.        *)
(***************************************************************************)
EXTENDS Integers, Sequences, FiniteSets, Bags, TLC

\* ----------------------------------------------------------------- bounds
\* loader.load calls in all, the two of init() included
MaxLoads == 3
\* hologram materials created in all
MaxHolo == 2
\* gizmo drags and auto-rotate frames in all
MaxEdits == 2

\* ------------------------------------------------------ program constants
\* maxDim > 10 (hundredths)
RescaleAbove == 1000
\* maxDim < 0.1 (hundredths)
RescaleBelow == 10
\* scale = 3 / maxDim (hundredths)
RescaleTarget == 300
\* orbitControls.minDistance = 0.1, maxDistance = 100 (hundredths)
OrbitMinDistance == 10
OrbitMaxDistance == 10000
\* The camera's distance from the centre of a framed box is maxDim times
\* 1.2 / (2 tan 22.5) * |(0.4, 0.25, 0.9)| = 1.47187..., a number between
\* these two thousandths.
FrameReachLo == 1471
FrameReachHi == 1472

\* -------------------------------------------------------------- resources
\* A disposable object: geometry, material, texture of a loaded model
\* (owner = the load that created it), a hologram ShaderMaterial
\* (kind "holo", owner 0) or an environment texture (kind "env", owner 0).
Res(kind, owner, id) == [kind |-> kind, owner |-> owner, id |-> id]

NoRes == Res("none", 0, 0)

\* The value of a mesh's .material field: one material, or an array of them.
\* mats = <<>> with arr = FALSE is an absent material.
MatValue(arr, mats) == [arr |-> arr, mats |-> mats]

NoMaterial == MatValue(FALSE, <<>>)

\* ---------------------------------------------------------------- assets
\* What the external GLTF loader can hand to the success callback: the
\* children of gltf.scene (the root Group itself has neither geometry nor
\* material), the texture fields of each material, the geometry's local
\* AABB and the root's position as loaded.  geometry 0 = none; material
\* ids are local to the asset.
Node(isMesh, geometry, arr, mats) ==
  [isMesh |-> isMesh, geometry |-> geometry, arr |-> arr, mats |-> mats]

Box(min, max) == [empty |-> FALSE, nan |-> FALSE, min |-> min, max |-> max]

EmptyBox ==
  [empty |-> TRUE, nan |-> FALSE, min |-> <<0, 0, 0>>, max |-> <<0, 0, 0>>]

\* A vector whose components are NaN, and the box setFromObject yields for
\* geometry under an infinite scale: 0 * Infinity is NaN, Math.min and
\* Math.max pass NaN on, and isEmpty() is false of it.
NaNVec == << >>

NaNBox == [empty |-> FALSE, nan |-> TRUE, min |-> NaNVec, max |-> NaNVec]

Assets ==
  << \* 1: two meshes sharing one geometry and one material, off-centre
     \*    box of size 20 x 12 x 4 (above 10: rescaled), root moved before
     \*    load
     [nodes |-> << Node(TRUE, 1, FALSE, <<1>>), Node(TRUE, 1, FALSE, <<1>>) >>,
      matTex |-> << <<1>> >>,
      box |-> Box(<<0, 0, 0>>, <<2000, 1200, 400>>),
      position |-> <<100, 0, -200>>],
     \* 2: one mesh with a list of two materials sharing one texture, and
     \*    a line (not a mesh) with its own geometry and material; box of
     \*    size 4 x 10 x 2 (largest dimension exactly 10)
     [nodes |-> << Node(TRUE, 1, TRUE, <<1, 2>>), Node(FALSE, 2, FALSE, <<3>>) >>,
      matTex |-> << <<1>>, <<1>>, <<>> >>,
      box |-> Box(<<-200, 0, -100>>, <<200, 1000, 100>>),
      position |-> <<0, 0, 0>>],
     \* 3: an empty group: nothing to draw, empty bounding box
     [nodes |-> << >>,
      matTex |-> << >>,
      box |-> EmptyBox,
      position |-> <<0, 0, 0>>],
     \* 4: one mesh, off-centre box of size 0.04 x 0.02 x 0.02 (below 0.1:
     \*    rescaled)
     [nodes |-> << Node(TRUE, 1, FALSE, <<1>>) >>,
      matTex |-> << <<>> >>,
      box |-> Box(<<0, 0, 0>>, <<4, 2, 2>>),
      position |-> <<0, 0, 0>>],
     \* 5: one mesh, box of size 0.1 x 0.1 x 0.06 centred on the root's
     \*    origin (largest dimension exactly 0.1), root moved before load
     [nodes |-> << Node(TRUE, 1, FALSE, <<1>>) >>,
      matTex |-> << <<>> >>,
      box |-> Box(<<-5, -5, -3>>, <<5, 5, 3>>),
      position |-> <<20, 40, 0>>],
     \* 6: one degenerate mesh, all its vertices at one point: a box that
     \*    is not empty and has size 0
     [nodes |-> << Node(TRUE, 1, FALSE, <<1>>) >>,
      matTex |-> << <<>> >>,
      box |-> Box(<<100, 0, 0>>, <<100, 0, 0>>),
      position |-> <<0, 0, 0>>] >>

\* The assets that differ in what they hold (meshes, materials, textures);
\* 4, 5 and 6 add sizes only.
AssetIds == {1, 2, 3}

SizeAssetIds == DOMAIN Assets

\* The assets that differ in how frameModel sees them: rescaled and
\* off-centre, at the upper limit, empty, of size 0.
ViewAssetIds == {1, 2, 3, 6}

\* Preset keys of ENV_PRESETS the select box offers, and one it does not.
PresetKeys == {"evening", "studio"}

RequestKeys == PresetKeys \cup {"unknown"}

\* ------------------------------------------------------------------ state
\* Objects no reference leads to any more (a replaced model's children, a
\* hologram material taken off its mesh) are garbage and are dropped from
\* nodes, xform and envMap; what was disposed of them stays in disposeLog.
VARIABLES
  modelLoads,         \* loader.load calls of loadGLBModel, in request order
  envLoads,           \* loader.load calls of loadHDRI / loadPresetEXR
  currentModel,       \* id of the current model, 0 = null
  modelAsset,         \* loaded model id -> asset it was built from
  nodes,              \* the current model's children and their live fields
  xform,              \* the current model's position / rotation / scale
  sceneModels,        \* model ids that are children of scene
  gizmoObject,        \* transformControls.object, 0 = detached
  modelInitialTransform, \* snapshot for reset, or the null record
  hologramActive,
  originalMaterials,  \* Map: mesh uuid -> saved .material value
  holoCount,          \* hologram materials created so far
  envMap,             \* material -> .envMap texture id (absent = unset)
  currentHDRI,        \* id of the current environment texture, 0 = null
  sceneEnvironment,   \* scene.environment, 0 = null
  sceneBackground,    \* scene.background, 0 = the black Color
  loadingVisible,     \* #loading-overlay has class 'visible'
  alertCount,         \* alert() calls so far
  disposeLog,         \* bag of [by, holder, res, live]: every dispose() call
  disposeObjectCalls, \* model id -> number of disposeObject(model) calls
  disposeObjectContext, \* model id -> scene children and gizmo binding
                      \* when disposeObject(model) was called
  cameraPosition,     \* camera.position, see CameraAt
  orbitTarget,        \* orbitControls.target
  transformMode,      \* transformControls.mode
  autoRotate,
  edits               \* gizmo drags and auto-rotate frames so far

vars ==
  << modelLoads, envLoads, currentModel, modelAsset, nodes, xform,
     sceneModels, gizmoObject, modelInitialTransform, hologramActive,
     originalMaterials, holoCount, envMap, currentHDRI, sceneEnvironment,
     sceneBackground, loadingVisible, alertCount, disposeLog,
     disposeObjectCalls, disposeObjectContext, cameraPosition, orbitTarget,
     transformMode, autoRotate, edits >>

modelVars ==
  << currentModel, modelAsset, nodes, xform, sceneModels, gizmoObject,
     modelInitialTransform, hologramActive, originalMaterials, holoCount,
     disposeObjectCalls, disposeObjectContext >>

cameraVars == << cameraPosition, orbitTarget >>

controlVars == << transformMode, autoRotate, edits >>

envVars == << currentHDRI, sceneEnvironment, sceneBackground >>

Vec(x, y, z) == <<x, y, z>>

\* A scale factor as a fraction; every axis carries the same one here.
Frac(num, den) == [num |-> num, den |-> den]

Transform(position, rotation, scale) ==
  [set |-> TRUE, position |-> position, rotation |-> rotation, scale |-> scale]

NullTransform ==
  [set |-> FALSE, position |-> Vec(0, 0, 0), rotation |-> Vec(0, 0, 0),
   scale |-> Frac(1, 1)]

EmptyMap == [k \in {} |-> NoMaterial]

\* A mesh's uuid: unique per object, here the pair (model, child index).
Uuid(m, i) == <<m, i>>

\* ---------------------------------------------------------------- helpers
Max2(a, b) == IF a >= b THEN a ELSE b

Max3(a, b, c) == Max2(a, Max2(b, c))

RECURSIVE SeqToBag(_)
\* The bag of the elements of a sequence, one copy per occurrence.
SeqToBag(s) ==
  IF s = <<>> THEN EmptyBag ELSE SetToBag({Head(s)}) (+) SeqToBag(Tail(s))

RECURSIVE Copies(_, _)
\* Number of copies, in bag B, of the elements of the set S.
Copies(S, B) ==
  IF S = {} THEN 0
  ELSE LET e == CHOOSE x \in S : TRUE
       IN CopiesIn(e, B) + Copies(S \ {e}, B)

\* Number of dispose() calls recorded on resource r: by anyone, by one
\* caller, and all those of one caller.
DisposeCount(r) ==
  Copies({e \in BagToSet(disposeLog) : e.res = r}, disposeLog)

DisposeCountBy(by, r) ==
  Copies({e \in BagToSet(disposeLog) : e.res = r /\ e.by = by}, disposeLog)

CallsBy(by) ==
  Copies({e \in BagToSet(disposeLog) : e.by = by}, disposeLog)

\* Whether the scene still used a resource at the moment dispose() was
\* called on it: an environment texture that is scene.environment or
\* scene.background, anything else held by a subtree that is a child of
\* scene.
IsLive(r, holder, scn, env, bg) ==
  IF r.kind = "env" THEN r.id \in {env, bg} ELSE holder \in scn

\* dispose() calls, in order, tagged with their caller, with the model
\* whose subtree held the resource (0 = none) and with whether the scene
\* still used it.
Logged(by, calls, holder, scn, env, bg) ==
  SeqToBag([i \in 1..Len(calls) |->
              [by |-> by, holder |-> holder, res |-> calls[i],
               live |-> IsLive(calls[i], holder, scn, env, bg)]])

\* ------------------------------------------------------- loaded subtrees
\* The live children of a freshly loaded model m built from asset a.
FreshNodes(m, a) ==
  [i \in 1..Len(Assets[a].nodes) |->
     LET n == Assets[a].nodes[i]
     IN [isMesh |-> n.isMesh,
         geometry |-> IF n.geometry = 0 THEN NoRes ELSE Res("geom", m, n.geometry),
         material |-> MatValue(n.arr, [k \in 1..Len(n.mats) |-> Res("mat", m, n.mats[k])]),
         castShadow |-> FALSE,
         receiveShadow |-> FALSE]]

\* Geometries, materials and textures the loader created for model m.
OwnedGeometries(m) ==
  {Res("geom", m, Assets[modelAsset[m]].nodes[i].geometry) :
     i \in {j \in 1..Len(Assets[modelAsset[m]].nodes) :
              Assets[modelAsset[m]].nodes[j].geometry # 0}}

OwnedMaterials(m) ==
  {Res("mat", m, k) : k \in 1..Len(Assets[modelAsset[m]].matTex)}

OwnedTextures(m) ==
  UNION {{Res("tex", m, Assets[modelAsset[m]].matTex[k][j]) :
            j \in 1..Len(Assets[modelAsset[m]].matTex[k])} :
         k \in 1..Len(Assets[modelAsset[m]].matTex)}

\* Own properties of a material whose value has a dispose method: the
\* texture fields the loader filled, then envMap once it has been set.
MaterialDisposables(mat) ==
  LET own == IF mat.kind = "mat"
             THEN LET t == Assets[modelAsset[mat.owner]].matTex[mat.id]
                  IN [k \in 1..Len(t) |-> Res("tex", mat.owner, t[k])]
             ELSE <<>>
      env == IF mat \in DOMAIN envMap THEN <<Res("env", 0, envMap[mat])>> ELSE <<>>
  IN own \o env

\* -------------------------------------------------------- dispose helper
\* disposeMaterial(material): every own property with a dispose method,
\* then the material itself.
DisposeMaterial(mat) == MaterialDisposables(mat) \o <<mat>>

RECURSIVE DisposeMaterials(_)
\* Lines 533-537: disposeMaterial on each material of a list, or on the
\* single material.
DisposeMaterials(mats) ==
  IF mats = <<>> THEN <<>>
  ELSE DisposeMaterial(Head(mats)) \o DisposeMaterials(Tail(mats))

\* The dispose() calls of one traversed child: its geometry, then its
\* material or materials.
DisposeChild(child) ==
  (IF child.geometry # NoRes THEN <<child.geometry>> ELSE <<>>)
    \o DisposeMaterials(child.material.mats)

RECURSIVE DisposeObject(_)
\* disposeObject(obj) on a subtree with children ns: the dispose() calls it
\* makes, in traversal order.
DisposeObject(ns) ==
  IF ns = <<>> THEN <<>> ELSE DisposeChild(Head(ns)) \o DisposeObject(Tail(ns))

\* ------------------------------------------------------- bounding boxes
\* new THREE.Box3().setFromObject(model) for a freshly loaded asset: the
\* geometry's box moved by the root's position (scale 1, no rotation).
BoxOfAsset(a) ==
  LET b == Assets[a].box
      p == Assets[a].position
  IN IF b.empty THEN EmptyBox
     ELSE Box([i \in 1..3 |-> b.min[i] + p[i]], [i \in 1..3 |-> b.max[i] + p[i]])

\* Box3.getSize / getCenter: the zero vector for an empty box.
BoxSize(b) ==
  IF b.empty THEN Vec(0, 0, 0)
  ELSE IF b.nan THEN NaNVec
  ELSE [i \in 1..3 |-> b.max[i] - b.min[i]]

BoxCenter(b) ==
  IF b.empty THEN Vec(0, 0, 0)
  ELSE IF b.nan THEN NaNVec
  ELSE [i \in 1..3 |-> (b.min[i] + b.max[i]) \div 2]

\* The quarter turn q about Y applied to the box b: x' = z, z' = -x for one
\* turn (Object3D.rotation.y).
RotateY(b, q) ==
  IF q % 4 = 0 THEN b
  ELSE IF q % 4 = 1
    THEN Box(<<b.min[3], b.min[2], -b.max[1]>>, <<b.max[3], b.max[2], -b.min[1]>>)
  ELSE IF q % 4 = 2
    THEN Box(<<-b.max[1], b.min[2], -b.max[3]>>, <<-b.min[1], b.max[2], -b.min[3]>>)
  ELSE Box(<<-b.max[3], b.min[2], b.min[1]>>, <<-b.min[3], b.max[2], b.max[1]>>)

\* new THREE.Box3().setFromObject(model) for the model built from asset a
\* under transform t: the geometry's box scaled, turned, then moved
\* (matrixWorld = T * R * S).  A subtree without geometry has an empty box
\* whatever its transform.
WorldBox(t, a) ==
  IF Assets[a].box.empty THEN EmptyBox
  ELSE IF t.scale.den = 0 THEN NaNBox
  ELSE LET r == RotateY(Assets[a].box, t.rotation[2])
       IN Box([i \in 1..3 |-> t.position[i] + (t.scale.num * r.min[i]) \div t.scale.den],
              [i \in 1..3 |-> t.position[i] + (t.scale.num * r.max[i]) \div t.scale.den])

\* Lines 205-219: the position and scale setupLoadedModel gives the model.
NormalizedTransform(a) ==
  LET box == BoxOfAsset(a)
      size == BoxSize(box)
      center == BoxCenter(box)
      p == Assets[a].position
      maxDim == Max3(size[1], size[2], size[3])
  IN Transform(
       Vec(p[1] - center[1], (p[2] - center[2]) + size[2] \div 2, p[3] - center[3]),
       Vec(0, 0, 0),
       IF maxDim > RescaleAbove \/ maxDim < RescaleBelow
         THEN Frac(RescaleTarget, maxDim)
         ELSE Frac(1, 1))

\* ------------------------------------------------------ model lifecycle
\* Lines 194-203: shadows on for every mesh of the new model.
WithShadows(ns) ==
  [i \in 1..Len(ns) |->
     IF ns[i].isMesh
       THEN [ns[i] EXCEPT !.castShadow = TRUE, !.receiveShadow = TRUE]
       ELSE ns[i]]

\* Lines 186-190: the dispose() calls made for the model being replaced.
DisposePrevious ==
  IF currentModel # 0 THEN DisposeObject(nodes) ELSE <<>>

\* Mutant of SceneAfterSetup: line 188 (scene.remove) left out.
SceneAfterSetup_NoRemove(m) == sceneModels \cup {m}

\* Lines 188 and 221: scene.remove(currentModel), then scene.add(model).
SceneAfterSetup(m) ==
  (IF currentModel # 0 THEN sceneModels \ {currentModel} ELSE sceneModels) \cup {m}

\* Mutant of GizmoAfterSetup: neither detach (line 187) nor attach when
\* the gizmo already has an object.
GizmoAfterSetup_KeepBound(m) == IF gizmoObject # 0 THEN gizmoObject ELSE m

\* Lines 187 and 238: transformControls.detach(), then attach(model).
GizmoAfterSetup(m) == m

\* The models that are children of scene when line 189 calls disposeObject:
\* line 188 has removed the previous model, line 221 has not yet added the
\* new one.
SceneAtDispose == sceneModels \ {currentModel}

\* Mutant of GizmoAtDispose: line 187 (detach) moved after the disposal.
GizmoAtDispose_StillBound == gizmoObject

\* transformControls.object when line 189 calls disposeObject: line 187 has
\* detached it.
GizmoAtDispose == 0

\* ---------------------------------------------------------------- camera
\* A camera position: origin + dir * f, the factor f being
\*   "nan":  NaN (every component of the position is NaN)
\*   "one":  1
\*   "K":    n * K / 20, with K = 1.2 / (2 tan(fov / 2)) for fov = 45 degrees
\*           (an irrational number, kept as a symbol)
\*   "unit": n / |dir|  (the point at distance n in direction dir)
CameraAt(origin, dir, kind, n) ==
  [origin |-> origin, dir |-> dir, kind |-> kind, n |-> n]

\* Line 417: the offsets 0.4, 0.25, 0.9, in twentieths.
FrameDirection == <<8, 5, 18>>

\* Mutant of CameraZ: the margin of line 415 added (cameraZ += 1.2)
\* instead of multiplied.
CameraZ_AddedMargin(maxDim) == maxDim + 120

\* Lines 413-415: cameraZ for a box of largest dimension maxDim, as the
\* multiple of K it is (Math.abs of a size changes nothing).
CameraZ(maxDim) == maxDim

\* Whether a camera position is the point v; K and 1 / |dir| being
\* irrational, a position of those kinds is v only with a zero offset.
CameraIsAt(c, v) ==
  IF c.kind = "nan" \/ v = NaNVec THEN FALSE
  ELSE IF c.kind = "one" THEN [i \in 1..3 |-> c.origin[i] + c.dir[i]] = v
  ELSE c.origin = v /\ (c.n = 0 \/ c.dir = <<0, 0, 0>>)

\* Mutant of OrbitUpdate: no distance limits.
OrbitUpdate_NoLimits(c) == c

\* orbitControls.update() (lines 177, 419, 522) for a camera whose origin
\* is the orbit target: the offset keeps its direction and its length is
\* brought into [minDistance, maxDistance] (lines 88-89); a zero offset
\* becomes minDistance straight up (Spherical.makeSafe, up to 1e-7).
OrbitUpdate(c) ==
  IF c.kind = "nan" THEN c
  ELSE IF CameraIsAt(c, c.origin)
    THEN CameraAt(c.origin, <<0, OrbitMinDistance, 0>>, "one", 1)
  ELSE IF c.kind = "K"
    THEN IF c.n * FrameReachHi < OrbitMinDistance * 1000
           THEN CameraAt(c.origin, c.dir, "unit", OrbitMinDistance)
         ELSE IF c.n * FrameReachLo > OrbitMaxDistance * 1000
           THEN CameraAt(c.origin, c.dir, "unit", OrbitMaxDistance)
         ELSE c
  ELSE IF c.kind = "one"
    THEN LET l2 == c.dir[1] * c.dir[1] + c.dir[2] * c.dir[2] + c.dir[3] * c.dir[3]
         IN IF l2 < OrbitMinDistance * OrbitMinDistance
              THEN CameraAt(c.origin, c.dir, "unit", OrbitMinDistance)
            ELSE IF l2 > OrbitMaxDistance * OrbitMaxDistance
              THEN CameraAt(c.origin, c.dir, "unit", OrbitMaxDistance)
            ELSE c
  ELSE c

\* Lines 409-417: where frameModel puts the camera for the model built
\* from asset a under transform t, before orbitControls.update().
FramedCamera(t, a) ==
  LET box == WorldBox(t, a)
      size == BoxSize(box)
      maxDim == Max3(size[1], size[2], size[3])
  IN IF box.nan
       THEN CameraAt(NaNVec, NaNVec, "nan", 0)
       ELSE CameraAt(BoxCenter(box), FrameDirection, "K", CameraZ(maxDim))

\* frameModel(object) for the model built from asset a under transform t.
FrameModel(t, a) ==
  /\ cameraPosition' = OrbitUpdate(FramedCamera(t, a))
  /\ orbitTarget' = BoxCenter(WorldBox(t, a))

\* setupLoadedModel(model, name), for the model m the loader built from
\* asset a.  The previous model is disposed after it has left the scene
\* (lines 188-189).
SetupLoadedModel(m, a) ==
  /\ disposeLog' = disposeLog (+)
       Logged("disposeObject", DisposePrevious, currentModel,
              SceneAtDispose, sceneEnvironment, sceneBackground)
  /\ disposeObjectContext' =
       (IF currentModel # 0
          THEN (currentModel :> [scene |-> SceneAtDispose, gizmo |-> GizmoAtDispose])
                 @@ disposeObjectContext
          ELSE disposeObjectContext)
  /\ disposeObjectCalls' =
       (IF currentModel # 0
          THEN [disposeObjectCalls EXCEPT ![currentModel] = @ + 1]
          ELSE disposeObjectCalls) @@ (m :> 0)
  /\ sceneModels' = SceneAfterSetup(m)
  /\ modelAsset' = modelAsset @@ (m :> a)
  /\ nodes' = WithShadows(FreshNodes(m, a))
  /\ xform' = NormalizedTransform(a)
  /\ currentModel' = m
  /\ modelInitialTransform' = NormalizedTransform(a)
  /\ hologramActive' = FALSE
  /\ originalMaterials' = EmptyMap
  /\ gizmoObject' = GizmoAfterSetup(m)
  /\ envMap' = [mat \in {} |-> 0]
  /\ FrameModel(NormalizedTransform(a), a)
  /\ UNCHANGED holoCount

\* ------------------------------------------------------------ GLB loads
\* A loader.load call: its state, whether the source was a File, and the
\* URL.createObjectURL (lines 254, 331) and URL.revokeObjectURL calls made
\* for it.
Load(status, isFile) ==
  [status |-> status, isFile |-> isFile,
   created |-> IF isFile THEN 1 ELSE 0, revoked |-> 0]

Pending(loads) == {i \in 1..Len(loads) : loads[i].status = "pending"}

LoadCount == Len(modelLoads) + Len(envLoads)

\* Mutant of Settle: the revoke of the error callbacks (lines 279, 351)
\* left out.
Settle_NoRevokeOnError(loads, id, status) ==
  [loads EXCEPT ![id] = [@ EXCEPT !.status = status,
                                  !.revoked = IF loads[id].isFile /\ status = "done"
                                                THEN @ + 1 ELSE @]]

\* Lines 267, 279, 339, 351: URL.revokeObjectURL(url) if the source was a File.
Settle(loads, id, status) ==
  [loads EXCEPT ![id] = [@ EXCEPT !.status = status,
                                  !.revoked = IF loads[id].isFile THEN @ + 1 ELSE @]]

\* loadGLBModel(fileOrUrl, name), up to the loader.load call.
LoadGLBModel(isFile) ==
  /\ LoadCount < MaxLoads
  /\ loadingVisible' = TRUE
  /\ modelLoads' = Append(modelLoads, Load("pending", isFile))
  /\ UNCHANGED <<cameraVars, controlVars, envLoads, modelVars, envVars, envMap, alertCount, disposeLog>>

\* Mutant of GLBOnLoad: a completion is applied only if no later load has
\* been requested (a generation check), and is dropped otherwise.
GLBOnLoad_LatestOnly(id, a) ==
  /\ id \in Pending(modelLoads)
  /\ IF id = Len(modelLoads)
       THEN SetupLoadedModel(id, a)
       ELSE UNCHANGED <<cameraVars, modelVars, envMap, disposeLog>>
  /\ loadingVisible' = FALSE
  /\ modelLoads' = Settle(modelLoads, id, "done")
  /\ UNCHANGED <<controlVars, envLoads, envVars, alertCount>>

\* Lines 264-268: the success callback of load id, the loader having
\* produced asset a.
GLBOnLoad(id, a) ==
  /\ id \in Pending(modelLoads)
  /\ SetupLoadedModel(id, a)
  /\ loadingVisible' = FALSE
  /\ modelLoads' = Settle(modelLoads, id, "done")
  /\ UNCHANGED <<controlVars, envLoads, envVars, alertCount>>

\* Lines 269-274: the progress callback; total = 0 leaves the overlay alone.
GLBOnProgress(id, total) ==
  /\ id \in Pending(modelLoads)
  /\ loadingVisible' = (IF total > 0 THEN TRUE ELSE loadingVisible)
  /\ UNCHANGED <<cameraVars, controlVars, modelLoads, envLoads, modelVars, envVars, envMap, alertCount,
                 disposeLog>>

\* Mutant of GLBOnError: the error callback also resets the override state,
\* as the success path does.
GLBOnError_Resets(id) ==
  /\ id \in Pending(modelLoads)
  /\ loadingVisible' = FALSE
  /\ alertCount' = alertCount + 1
  /\ modelLoads' = Settle(modelLoads, id, "failed")
  /\ hologramActive' = FALSE
  /\ originalMaterials' = EmptyMap
  /\ UNCHANGED <<cameraVars, controlVars, disposeObjectContext,
                 envLoads, currentModel, modelAsset, nodes, xform, sceneModels,
                 gizmoObject, modelInitialTransform, holoCount,
                 disposeObjectCalls, envVars, envMap, disposeLog>>

\* Lines 275-280: the error callback.
GLBOnError(id) ==
  /\ id \in Pending(modelLoads)
  /\ loadingVisible' = FALSE
  /\ alertCount' = alertCount + 1
  /\ modelLoads' = Settle(modelLoads, id, "failed")
  /\ UNCHANGED <<cameraVars, controlVars, envLoads, modelVars, envVars, envMap, disposeLog>>

\* ----------------------------------------------------- environment maps
\* Lines 311-320: the meshes of the current model whose .material is a
\* single material get .envMap = texture (on a list the property lands on
\* the array object, which no code reads).
EnvMapTargets ==
  IF currentModel = 0 THEN {}
  ELSE {nodes[i].material.mats[1] :
          i \in {j \in 1..Len(nodes) : /\ nodes[j].isMesh
                                       /\ ~nodes[j].material.arr
                                       /\ nodes[j].material.mats # <<>>}}

\* Lines 305-308: the dispose() call on the superseded texture.
DisposePreviousHDRI ==
  IF currentHDRI # 0 THEN <<Res("env", 0, currentHDRI)>> ELSE <<>>

\* applyEnvironmentTexture(texture); scene.environment and scene.background
\* are already the new texture (lines 298-299) when the previous one is
\* disposed (line 307).
ApplyEnvironmentTexture(t) ==
  /\ sceneEnvironment' = t
  /\ sceneBackground' = t
  /\ disposeLog' = disposeLog (+)
       Logged("applyEnvironmentTexture", DisposePreviousHDRI, 0, sceneModels, t, t)
  /\ currentHDRI' = t
  /\ envMap' = [mat \in DOMAIN envMap \cup EnvMapTargets |->
                  IF mat \in EnvMapTargets THEN t ELSE envMap[mat]]

\* loadHDRI(file), up to the loader.load call.
LoadHDRI ==
  /\ LoadCount < MaxLoads
  /\ loadingVisible' = TRUE
  /\ envLoads' = Append(envLoads, Load("pending", TRUE))
  /\ UNCHANGED <<cameraVars, controlVars, modelLoads, modelVars, envVars, envMap, alertCount, disposeLog>>

\* loadPresetEXR(key), up to the loader.load call; an unknown key returns
\* at line 373.
LoadPresetEXR(key) ==
  /\ LoadCount < MaxLoads
  /\ IF key \in PresetKeys
       THEN /\ loadingVisible' = TRUE
            /\ envLoads' = Append(envLoads, Load("pending", FALSE))
       ELSE UNCHANGED <<loadingVisible, envLoads>>
  /\ UNCHANGED <<cameraVars, controlVars, modelLoads, modelVars, envVars, envMap, alertCount, disposeLog>>

\* Lines 336-340 and 380-384: the success callback of either loader; the
\* texture takes the load's id.
EXROnLoad(id) ==
  /\ id \in Pending(envLoads)
  /\ ApplyEnvironmentTexture(id)
  /\ loadingVisible' = FALSE
  /\ envLoads' = Settle(envLoads, id, "done")
  /\ UNCHANGED <<cameraVars, controlVars, modelLoads, modelVars, alertCount>>

\* Lines 341-346 and 385-390: the progress callback.
EXROnProgress(id, total) ==
  /\ id \in Pending(envLoads)
  /\ loadingVisible' = (IF total > 0 THEN TRUE ELSE loadingVisible)
  /\ UNCHANGED <<cameraVars, controlVars, modelLoads, envLoads, modelVars, envVars, envMap, alertCount,
                 disposeLog>>

\* Mutant of EXROnError: the showLoading(false) of the error callbacks
\* (lines 349, 393) left out.
EXROnError_KeepsOverlay(id) ==
  /\ id \in Pending(envLoads)
  /\ alertCount' = (IF envLoads[id].isFile THEN alertCount + 1 ELSE alertCount)
  /\ envLoads' = Settle(envLoads, id, "failed")
  /\ UNCHANGED <<cameraVars, controlVars, modelLoads, modelVars, envVars, envMap,
                 disposeLog, loadingVisible>>

\* Lines 347-352 (file: alert) and 391-394 (preset: console.warn only).
EXROnError(id) ==
  /\ id \in Pending(envLoads)
  /\ loadingVisible' = FALSE
  /\ alertCount' = (IF envLoads[id].isFile THEN alertCount + 1 ELSE alertCount)
  /\ envLoads' = Settle(envLoads, id, "failed")
  /\ UNCHANGED <<cameraVars, controlVars, modelLoads, modelVars, envVars, envMap, disposeLog>>

\* Lines 703-709: the background checkbox changed to `checked`.
HDRIBackgroundChange(checked) ==
  /\ sceneBackground' = (IF checked /\ currentHDRI # 0 THEN currentHDRI ELSE 0)
  /\ UNCHANGED <<cameraVars, controlVars, modelLoads, envLoads, modelVars, currentHDRI, sceneEnvironment,
                 envMap, loadingVisible, alertCount, disposeLog>>

\* ---------------------------------------------------- hologram override
\* Children of the current model that pass the isMesh test, and the rank of
\* child i among them in traversal order.
MeshIndices == {i \in 1..Len(nodes) : nodes[i].isMesh}

MeshRank(i) == Cardinality({j \in MeshIndices : j <= i})

\* createHologramMaterial(): a new ShaderMaterial on every call.
CreateHologramMaterial(n) == MatValue(FALSE, <<Res("holo", 0, n)>>)

\* Mutant of SaveOriginals: the has() test of line 491 left out, every
\* enable records the material the mesh has now.
SaveOriginals_Resnapshot ==
  [u \in DOMAIN originalMaterials \cup {Uuid(currentModel, i) : i \in MeshIndices} |->
     IF u[1] = currentModel /\ u[2] \in MeshIndices
       THEN nodes[u[2]].material
       ELSE originalMaterials[u]]

\* Lines 491-493: the binding map after the enable traversal; a uuid already
\* present keeps its entry.
SaveOriginals ==
  LET new == {Uuid(currentModel, i) : i \in MeshIndices} \ DOMAIN originalMaterials
  IN [u \in DOMAIN originalMaterials \cup new |->
        IF u \in DOMAIN originalMaterials
          THEN originalMaterials[u]
          ELSE nodes[u[2]].material]

\* Lines 494-496: every mesh gets a fresh hologram material and loses its
\* shadows.
ApplyHologram ==
  [i \in 1..Len(nodes) |->
     IF nodes[i].isMesh
       THEN [nodes[i] EXCEPT !.material = CreateHologramMaterial(holoCount + MeshRank(i)),
                             !.castShadow = FALSE,
                             !.receiveShadow = FALSE]
       ELSE nodes[i]]

\* Line 502: the children the disable traversal acts on, meshes whose uuid
\* has a binding.
BoundIndices ==
  {i \in MeshIndices : Uuid(currentModel, i) \in DOMAIN originalMaterials}

RECURSIVE DisposeOnDisableFrom(_)
\* Line 504, for the children from index i on: child.material.dispose()
\* where the live material has a dispose method (a list of materials has
\* none).
DisposeOnDisableFrom(i) ==
  IF i > Len(nodes) THEN <<>>
  ELSE (IF /\ i \in BoundIndices
           /\ ~nodes[i].material.arr
           /\ nodes[i].material.mats # <<>>
          THEN <<nodes[i].material.mats[1]>>
          ELSE <<>>) \o DisposeOnDisableFrom(i + 1)

\* The dispose() calls of the disable traversal, in order.
DisposeOnDisable == DisposeOnDisableFrom(1)

\* Lines 505-507: bound meshes get their saved material and their shadows
\* back.
RestoreOriginals ==
  [i \in 1..Len(nodes) |->
     IF i \in BoundIndices
       THEN [nodes[i] EXCEPT !.material = originalMaterials[Uuid(currentModel, i)],
                             !.castShadow = TRUE,
                             !.receiveShadow = TRUE]
       ELSE nodes[i]]

\* Lines 499-510: the binding map after toggleHologram(false); no line
\* clears it.
MapAfterDisable == originalMaterials

\* Materials a reference still leads to: on the children ns or saved in map.
Reachable(ns, map) ==
  UNION ({ {ns[i].material.mats[k] : k \in 1..Len(ns[i].material.mats)} :
             i \in 1..Len(ns) }
         \cup { {map[u].mats[k] : k \in 1..Len(map[u].mats)} : u \in DOMAIN map })

\* toggleHologram(enabled); the checkbox handler of lines 717-719 calls it
\* with the checkbox's state.
ToggleHologram(enabled) ==
  /\ IF currentModel = 0
       THEN UNCHANGED <<hologramActive, originalMaterials, nodes, holoCount,
                        disposeLog, envMap>>
       ELSE /\ hologramActive' = enabled
            /\ IF enabled
                 THEN /\ holoCount + Cardinality(MeshIndices) <= MaxHolo
                      /\ originalMaterials' = SaveOriginals
                      /\ nodes' = ApplyHologram
                      /\ holoCount' = holoCount + Cardinality(MeshIndices)
                      /\ disposeLog' = disposeLog
                 ELSE /\ CallsBy("toggleHologram") + Len(DisposeOnDisable)
                           <= 2 * MaxHolo
                      /\ disposeLog' = disposeLog (+)
                           Logged("toggleHologram", DisposeOnDisable, currentModel,
                                  sceneModels, sceneEnvironment, sceneBackground)
                      /\ nodes' = RestoreOriginals
                      /\ originalMaterials' = MapAfterDisable
                      /\ holoCount' = holoCount
            /\ envMap' = [mat \in DOMAIN envMap \cap Reachable(nodes', originalMaterials')
                            |-> envMap[mat]]
  /\ UNCHANGED <<cameraVars, controlVars, disposeObjectContext,
                 modelLoads, envLoads, currentModel, modelAsset, xform, sceneModels,
                 gizmoObject, modelInitialTransform, envVars, loadingVisible,
                 alertCount, disposeObjectCalls>>

\* Lines 761-763: Escape detaches the gizmo while a model is current.
KeyEscape ==
  /\ gizmoObject' = (IF currentModel # 0 THEN 0 ELSE gizmoObject)
  /\ UNCHANGED <<cameraVars, controlVars, disposeObjectContext,
                 modelLoads, envLoads, currentModel, modelAsset, nodes, xform,
                 sceneModels, modelInitialTransform, hologramActive,
                 originalMaterials, holoCount, envVars, envMap, loadingVisible,
                 alertCount, disposeLog, disposeObjectCalls>>

\* ------------------------------------------------- transform and camera
\* The modes of the gizmo the buttons and the keys g, r, s select.
TransformModes == {"translate", "rotate", "scale"}

\* What the gizmo does to the transform t of the object it is bound to when
\* the user drags it, by mode: one unit along x, a quarter turn about Y, or
\* eight times the size (Infinity stays Infinity).
Dragged(t, mode) ==
  IF mode = "translate"
    THEN [t EXCEPT !.position = <<@[1] + 100, @[2], @[3]>>]
  ELSE IF mode = "rotate"
    THEN [t EXCEPT !.rotation = <<@[1], @[2] + 1, @[3]>>]
  ELSE [t EXCEPT !.scale = IF @.den = 0 THEN @ ELSE Frac(8 * @.num, @.den)]

\* Mutant of SnapshotAfter: the snapshot of lines 225-229 taken without
\* clone(), its rotation being the model's own rotation object.
SnapshotAfter_Shared(snapshot, t) ==
  IF snapshot.set THEN [snapshot EXCEPT !.rotation = t.rotation] ELSE snapshot

\* modelInitialTransform once the model's transform has become t: lines
\* 225-229 cloned position, rotation and scale, so it is what it was.
SnapshotAfter(snapshot, t) == snapshot

\* A drag of the transform gizmo (lines 93-98, 238): it edits the object
\* the gizmo is bound to, nothing when it is detached.
GizmoDrag ==
  /\ gizmoObject # 0
  /\ gizmoObject = currentModel
  /\ edits < MaxEdits
  /\ xform' = Dragged(xform, transformMode)
  /\ modelInitialTransform' = SnapshotAfter(modelInitialTransform, xform')
  /\ edits' = edits + 1
  /\ UNCHANGED <<modelLoads, envLoads, currentModel, modelAsset, nodes,
                 sceneModels, gizmoObject, hologramActive,
                 originalMaterials, holoCount, disposeObjectCalls,
                 disposeObjectContext, envVars, envMap, loadingVisible,
                 alertCount, disposeLog, cameraVars, transformMode, autoRotate>>

\* animate(): one frame of the render loop (lines 168-179), a quarter turn
\* long when the model turns.
Animate ==
  /\ IF currentModel # 0 /\ autoRotate
       THEN /\ edits < MaxEdits
            /\ xform' = [xform EXCEPT !.rotation = <<@[1], @[2] + 1, @[3]>>]
            /\ edits' = edits + 1
       ELSE UNCHANGED <<xform, edits>>
  /\ modelInitialTransform' = SnapshotAfter(modelInitialTransform, xform')
  /\ cameraPosition' = OrbitUpdate(cameraPosition)
  /\ UNCHANGED <<modelLoads, envLoads, currentModel, modelAsset, nodes,
                 sceneModels, gizmoObject, hologramActive,
                 originalMaterials, holoCount, disposeObjectCalls,
                 disposeObjectContext, envVars, envMap, loadingVisible,
                 alertCount, disposeLog, orbitTarget, transformMode, autoRotate>>

\* Lines 712-714: the auto-rotate checkbox changed to `checked`.
AutoRotateChange(checked) ==
  /\ autoRotate' = checked
  /\ UNCHANGED <<modelLoads, envLoads, modelVars, envVars, envMap,
                 loadingVisible, alertCount, disposeLog, cameraVars,
                 transformMode, edits>>

\* resetModelTransform(): nothing without a model or a snapshot.
ResetModelTransform ==
  /\ xform' = (IF currentModel = 0 \/ ~modelInitialTransform.set
                 THEN xform
                 ELSE modelInitialTransform)
  /\ UNCHANGED <<modelLoads, envLoads, currentModel, modelAsset, nodes,
                 sceneModels, gizmoObject, modelInitialTransform, hologramActive,
                 originalMaterials, holoCount, disposeObjectCalls,
                 disposeObjectContext, envVars, envMap, loadingVisible,
                 alertCount, disposeLog, cameraVars, controlVars>>

\* setTransformMode(mode), from a button (lines 681-685) or the keys g, r,
\* s (lines 752-760).
SetTransformMode(mode) ==
  /\ transformMode' = mode
  /\ UNCHANGED <<modelLoads, envLoads, modelVars, envVars, envMap,
                 loadingVisible, alertCount, disposeLog, cameraVars,
                 autoRotate, edits>>

\* Lines 764-766: the key f frames the current model.
KeyF ==
  /\ IF currentModel # 0
       THEN FrameModel(xform, modelAsset[currentModel])
       ELSE UNCHANGED cameraVars
  /\ UNCHANGED <<modelLoads, envLoads, modelVars, envVars, envMap,
                 loadingVisible, alertCount, disposeLog, controlVars>>

\* resetCamera(): frame the current model, or go back to the start position.
ResetCamera ==
  /\ IF currentModel # 0
       THEN FrameModel(xform, modelAsset[currentModel])
       ELSE /\ cameraPosition' =
                 OrbitUpdate(CameraAt(<<0, 0, 0>>, <<300, 200, 500>>, "one", 1))
            /\ orbitTarget' = <<0, 0, 0>>
  /\ UNCHANGED <<modelLoads, envLoads, modelVars, envVars, envMap,
                 loadingVisible, alertCount, disposeLog, controlVars>>

\* ---------------------------------------------------------- specification
\* init(): nothing loaded, the default environment ('evening' preset, line
\* 402) and the default model (a URL, line 288) requested and in flight.
Init ==
  /\ modelLoads = <<Load("pending", FALSE)>>
  /\ envLoads = <<Load("pending", FALSE)>>
  /\ currentModel = 0
  /\ modelAsset = [m \in {} |-> 0]
  /\ nodes = <<>>
  /\ xform = NullTransform
  /\ sceneModels = {}
  /\ gizmoObject = 0
  /\ modelInitialTransform = NullTransform
  /\ hologramActive = FALSE
  /\ originalMaterials = EmptyMap
  /\ holoCount = 0
  /\ envMap = [mat \in {} |-> 0]
  /\ currentHDRI = 0
  /\ sceneEnvironment = 0
  /\ sceneBackground = 0
  /\ loadingVisible = TRUE
  /\ alertCount = 0
  /\ disposeLog = EmptyBag
  /\ disposeObjectCalls = [m \in {} |-> 0]
  /\ disposeObjectContext = [m \in {} |-> 0]
  /\ cameraPosition = CameraAt(<<0, 0, 0>>, <<300, 200, 500>>, "one", 1)
  /\ orbitTarget = <<0, 0, 0>>
  /\ transformMode = "translate"
  /\ autoRotate = TRUE
  /\ edits = 0

\* Files reach loadGLBModel from the file input and from drag and drop
\* (lines 630, 654); only init() passes a URL.
Next ==
  \/ LoadGLBModel(TRUE)
  \/ \E id \in 1..MaxLoads, a \in AssetIds : GLBOnLoad(id, a)
  \/ \E id \in 1..MaxLoads, total \in {0, 1} : GLBOnProgress(id, total)
  \/ \E id \in 1..MaxLoads : GLBOnError(id)
  \/ LoadHDRI
  \/ \E key \in RequestKeys : LoadPresetEXR(key)
  \/ \E id \in 1..MaxLoads : EXROnLoad(id)
  \/ \E id \in 1..MaxLoads, total \in {0, 1} : EXROnProgress(id, total)
  \/ \E id \in 1..MaxLoads : EXROnError(id)
  \/ \E checked \in BOOLEAN : HDRIBackgroundChange(checked)
  \/ \E enabled \in BOOLEAN : ToggleHologram(enabled)
  \/ KeyEscape

Spec == Init /\ [][Next]_vars

\* Model loads alone, for every size of asset.
LoadNext ==
  \/ LoadGLBModel(TRUE)
  \/ \E id \in 1..MaxLoads, a \in SizeAssetIds : GLBOnLoad(id, a)
  \/ \E id \in 1..MaxLoads, total \in {0, 1} : GLBOnProgress(id, total)
  \/ \E id \in 1..MaxLoads : GLBOnError(id)

LoadSpec == Init /\ [][LoadNext]_vars

\* The model, its transform, the gizmo and the camera; the override and
\* the environment, which touch none of these, stay as init() left them.
ViewNext ==
  \/ LoadGLBModel(TRUE)
  \/ \E id \in 1..MaxLoads, a \in ViewAssetIds : GLBOnLoad(id, a)
  \/ GizmoDrag
  \/ Animate
  \/ \E checked \in BOOLEAN : AutoRotateChange(checked)
  \/ ResetModelTransform
  \/ \E mode \in TransformModes : SetTransformMode(mode)
  \/ KeyEscape
  \/ KeyF
  \/ ResetCamera

ViewSpec == Init /\ [][ViewNext]_vars

\* ----------------------------------------------------------------- claims
LoadedModels == DOMAIN disposeObjectCalls

ReplacedModels == {m \in LoadedModels : m # currentModel}

\* C1: after every successful load at most one model subtree is a child of
\* the scene, the one held in currentModel, and every model that was
\* attached before has been handed to disposeObject exactly once (the
\* current one never).
C1_OneModelAttached ==
  /\ sceneModels = (IF currentModel = 0 THEN {} ELSE {currentModel})
  /\ \A m \in LoadedModels :
       disposeObjectCalls[m] = (IF m = currentModel THEN 0 ELSE 1)

\* A load has replaced an earlier model.
C1_Witness == currentModel # 0 /\ ReplacedModels # {}

\* C2: once a load has replaced a model, every geometry and every material
\* the replaced model had, the originals saved in originalMaterials
\* included, has been disposed.
C2_PreviousFullyDisposed ==
  \A m \in ReplacedModels :
    \A r \in OwnedGeometries(m) \cup OwnedMaterials(m) : DisposeCount(r) >= 1

\* dispose() calls disposeObject(m) made on resource r.
DisposedByObject(m, r) ==
  Copies({e \in BagToSet(disposeLog) :
            e.by = "disposeObject" /\ e.holder = m /\ e.res = r}, disposeLog)

\* C3: disposeObject calls dispose exactly once on each distinct geometry,
\* material and texture of the subtree it is given, shared ones and lists
\* of materials included.
C3_DisposedExactlyOnce ==
  \A m \in ReplacedModels :
    /\ \A g \in OwnedGeometries(m) : DisposedByObject(m, g) = 1
    /\ \A e \in BagToSet(disposeLog) :
         (e.by = "disposeObject" /\ e.holder = m) => DisposedByObject(m, e.res) = 1

\* C4: whichever success callback fires makes its own model the current
\* one, whatever the order of the requests, and the model that was current
\* leaves the scene and is disposed: the last completion wins.
C4_LastCompletedWins ==
  [][\A id \in 1..Len(modelLoads) :
       (modelLoads[id].status = "pending" /\ modelLoads'[id].status = "done") =>
         /\ currentModel' = id
         /\ sceneModels' = {id}
         /\ currentModel # 0 =>
              /\ currentModel \notin sceneModels'
              /\ disposeObjectCalls'[currentModel] = 1]_vars

\* Load 2 was requested while load 1 was in flight and completed first;
\* load 1 completed last, is current, and model 2 has been disposed.
C4_Witness ==
  /\ Len(modelLoads) >= 2
  /\ modelLoads[1].status = "done"
  /\ modelLoads[2].status = "done"
  /\ currentModel = 1
  /\ disposeObjectCalls[2] = 1

\* C5: the error callback of a model load changes nothing of the model
\* state (current model, its place in the scene, initial transform,
\* override flag, binding map, gizmo binding) and raises one alert.
C5_FailedLoadLeavesModel ==
  [][\A id \in 1..Len(modelLoads) :
       (modelLoads[id].status = "pending" /\ modelLoads'[id].status = "failed") =>
         /\ UNCHANGED <<currentModel, sceneModels, modelInitialTransform,
                        hologramActive, originalMaterials, gizmoObject, nodes>>
         /\ alertCount' = alertCount + 1]_vars

\* A model load has failed while a model was current with the override on
\* and another load still in flight.
C5_Witness ==
  /\ \E id \in 1..Len(modelLoads) : modelLoads[id].status = "failed"
  /\ currentModel # 0
  /\ hologramActive
  /\ gizmoObject = currentModel
  /\ Pending(envLoads) # {}
  /\ alertCount >= 1

\* C6: the binding map is empty whenever the override is not active, and
\* while it is active it has exactly one entry per mesh of the model.
C6_MapOnlyWhileActive ==
  /\ ~hologramActive => DOMAIN originalMaterials = {}
  /\ hologramActive =>
       DOMAIN originalMaterials = {Uuid(currentModel, i) : i \in MeshIndices}

\* C7: toggleHologram(true) on a model whose override is already active
\* changes neither the binding map nor any mesh's material, and creates no
\* further hologram material.
C7_EnableTwiceIsOnce ==
  [][(hologramActive /\ currentModel # 0 /\ ToggleHologram(TRUE)) =>
       UNCHANGED <<originalMaterials, nodes, holoCount>>]_vars

\* The material the loader gave child i of the current model.
LoadedMaterial(i) ==
  FreshNodes(currentModel, modelAsset[currentModel])[i].material

\* C8: toggleHologram(false) gives every mesh that has a binding the material
\* recorded for it, which is the one it had when the override was enabled
\* (the loader's), with its shadows on, and leaves every other child as it
\* was.
C8_DisableRestores ==
  [][(currentModel # 0 /\ ToggleHologram(FALSE)) =>
       \A i \in 1..Len(nodes) :
         IF nodes[i].isMesh /\ Uuid(currentModel, i) \in DOMAIN originalMaterials
           THEN /\ nodes'[i].material = originalMaterials[Uuid(currentModel, i)]
                /\ nodes'[i].material = LoadedMaterial(i)
                /\ nodes'[i].castShadow /\ nodes'[i].receiveShadow
           ELSE nodes'[i] = nodes[i]]_vars

\* The override has been enabled and disabled again: a hologram material
\* has been disposed and every mesh has the loader's material back.
C8_Witness ==
  /\ currentModel # 0
  /\ ~hologramActive
  /\ MeshIndices # {}
  /\ DOMAIN originalMaterials = {Uuid(currentModel, i) : i \in MeshIndices}
  /\ \A i \in MeshIndices : nodes[i].material = LoadedMaterial(i)
  /\ \E e \in BagToSet(disposeLog) : e.by = "toggleHologram" /\ e.res.kind = "holo"

\* C9: toggleHologram disposes hologram materials only, never a material
\* the loader gave a mesh.
C9_OnlyHologramDisposed ==
  \A e \in BagToSet(disposeLog) : e.by = "toggleHologram" => e.res.kind = "holo"

\* Environment textures whose load succeeded and which are no longer current.
SupersededMaps ==
  {t \in 1..Len(envLoads) : envLoads[t].status = "done" /\ t # currentHDRI}

\* C10: an environment map is disposed only once the scene no longer uses
\* it (the new one is scene.environment and scene.background), each
\* superseded map has been disposed exactly once and the current one never.
C10_EnvDisposedAfterApplyOnce ==
  /\ \A e \in BagToSet(disposeLog) : e.res.kind = "env" => ~e.live
  /\ \A t \in SupersededMaps : DisposeCount(Res("env", 0, t)) = 1
  /\ currentHDRI # 0 => DisposeCount(Res("env", 0, currentHDRI)) = 0

\* C11: the error callback of any environment load (file or preset) leaves
\* scene.environment, scene.background and currentHDRI as they were,
\* disposes nothing, changes no material's envMap, and tells the user
\* (one alert).
C11_FailedEnvLoadKeepsEnvironment ==
  [][\A id \in 1..Len(envLoads) :
       (envLoads[id].status = "pending" /\ envLoads'[id].status = "failed") =>
         /\ UNCHANGED <<currentHDRI, sceneEnvironment, sceneBackground, envMap,
                        disposeLog, modelVars>>
         /\ alertCount' = alertCount + 1]_vars

\* Materials a mesh of the current model has now, or gets back from the
\* binding map on disable, whose envMap is a texture dispose() was called on.
StaleEnvMaterials ==
  {mat \in Reachable(nodes, originalMaterials) \cap DOMAIN envMap :
     DisposeCount(Res("env", 0, envMap[mat])) > 0}

\* C12: when an environment load succeeds while a model is current, every
\* material of every mesh of that model has the new texture as envMap; and
\* at no time does a material that is on a mesh, or that the binding map
\* would restore, have a disposed texture as envMap.
C12_MeshesReferenceLiveEnvironment ==
  /\ [][\A id \in 1..Len(envLoads) :
          (/\ envLoads[id].status = "pending"
           /\ envLoads'[id].status = "done"
           /\ currentModel # 0) =>
            \A i \in MeshIndices :
              \A k \in 1..Len(nodes'[i].material.mats) :
                /\ nodes'[i].material.mats[k] \in DOMAIN envMap'
                /\ envMap'[nodes'[i].material.mats[k]] = id]_vars
  /\ [](StaleEnvMaterials = {})

\* C12, the clause on disposed textures: no material that is on a mesh of
\* the current model, or that the binding map would put back on disable,
\* has as envMap a texture dispose() was called on.
C12_NoStaleEnvironment == StaleEnvMaterials = {}

\* Every loader.load call made so far, model and environment.
AllLoads ==
  {modelLoads[i] : i \in 1..Len(modelLoads)} \cup {envLoads[i] : i \in 1..Len(envLoads)}

\* C13: an object URL is created for a load exactly when its source is a
\* File; it has not been revoked while the load is in flight and has been
\* revoked exactly once when the load has completed, whether it succeeded
\* or failed; a load from a remote URL or a preset creates and revokes none.
C13_ObjectUrlRevokedOnce ==
  \A l \in AllLoads :
    /\ l.created = (IF l.isFile THEN 1 ELSE 0)
    /\ l.revoked = (IF l.isFile /\ l.status # "pending" THEN 1 ELSE 0)

\* A load from a File has failed and one from a URL has succeeded.
C13_Witness ==
  /\ \E l \in AllLoads : l.isFile /\ l.status = "failed" /\ l.revoked = 1
  /\ \E l \in AllLoads : ~l.isFile /\ l.status = "done" /\ l.created = 0

\* C14: right after a successful load the world AABB of the new model (if
\* it has one) has its centre at x = 0, z = 0 and its minimum at y = 0,
\* whether or not the model was rescaled.
C14_CenteredOnGround ==
  [][\A id \in 1..Len(modelLoads) :
       (modelLoads[id].status = "pending" /\ modelLoads'[id].status = "done") =>
         LET b == WorldBox(xform', modelAsset'[id])
         IN ~b.empty => /\ ~b.nan
                        /\ b.min[1] + b.max[1] = 0
                        /\ b.min[3] + b.max[3] = 0
                        /\ b.min[2] = 0]_vars

\* C14 for the loads that are not rescaled.
C14_CenteredWhenNotRescaled ==
  [][\A id \in 1..Len(modelLoads) :
       (/\ modelLoads[id].status = "pending"
        /\ modelLoads'[id].status = "done"
        /\ xform'.scale = Frac(1, 1)) =>
         LET b == WorldBox(xform', modelAsset'[id])
         IN ~b.empty => /\ ~b.nan
                        /\ b.min[1] + b.max[1] = 0
                        /\ b.min[3] + b.max[3] = 0
                        /\ b.min[2] = 0]_vars

\* A step in which frameModel ran: the end of setupLoadedModel (line 241),
\* the key f, or the reset-camera button with a model current.
FrameModelRan ==
  \/ \E id \in 1..Len(modelLoads) :
       modelLoads[id].status = "pending" /\ modelLoads'[id].status = "done"
  \/ /\ currentModel # 0
     /\ UNCHANGED <<modelVars, controlVars>>
     /\ KeyF \/ ResetCamera

\* The camera is at a distance from the point target that is a number
\* greater than 0.
CameraOffTarget(c, target) ==
  /\ c.kind # "nan"
  /\ target # NaNVec
  /\ ~CameraIsAt(c, target)

\* C15: after frameModel, whatever the framed object's box (empty and of
\* size 0 included), the camera is at a distance greater than 0 from the
\* look-at target.
C15_FramedCameraKeepsDistance ==
  [][FrameModelRan => CameraOffTarget(cameraPosition', orbitTarget')]_vars

\* C15 for the objects whose box is empty (a subtree without geometry).
C15_EmptyBoxKeepsDistance ==
  [][(FrameModelRan /\ WorldBox(xform', modelAsset'[currentModel']).empty) =>
       CameraOffTarget(cameraPosition', orbitTarget')]_vars

\* The world box frameModel measured in the step: that of the current
\* model after it.
FramedBox == WorldBox(xform', modelAsset'[currentModel'])

\* The largest dimension of a box with numbers for bounds.
LargestDimension(b) ==
  LET size == BoxSize(b) IN Max3(size[1], size[2], size[3])

\* The step framed a model whose box is finite and not of size 0.
FramedSolid ==
  /\ FrameModelRan
  /\ \A b \in {FramedBox} : ~b.empty /\ ~b.nan /\ LargestDimension(b) > 0

\* C16: frameModel puts the look-at target on the centre of the object's
\* AABB and the camera at centre + cameraZ * (0.4, 0.25, 0.9) with cameraZ
\* = K * maxDim, K depending on the field of view only: the distance is
\* proportional to the largest dimension, for any size.
C16_FramingScaleInvariant ==
  [][FramedSolid =>
       \A b \in {FramedBox} :
         /\ orbitTarget' = BoxCenter(b)
         /\ cameraPosition' =
              CameraAt(BoxCenter(b), FrameDirection, "K", LargestDimension(b))]_vars

\* C16 as amended: the same while the distance K * maxDim * |(0.4, 0.25,
\* 0.9)| lies within the orbit controls' limits [0.1, 100]; beyond them the
\* camera is on the same ray at the limit.  The target is the centre in
\* every case.
C16_FramingProportionalWithinLimits ==
  [][FramedSolid =>
       \A b \in {FramedBox} : \A n \in {LargestDimension(b)} :
          /\ orbitTarget' = BoxCenter(b)
          /\ (/\ n * FrameReachLo >= OrbitMinDistance * 1000
              /\ n * FrameReachHi <= OrbitMaxDistance * 1000) =>
               cameraPosition' = CameraAt(BoxCenter(b), FrameDirection, "K", n)
          /\ n * FrameReachLo > OrbitMaxDistance * 1000 =>
               cameraPosition' =
                 CameraAt(BoxCenter(b), FrameDirection, "unit", OrbitMaxDistance)
          /\ n * FrameReachHi < OrbitMinDistance * 1000 =>
               cameraPosition' =
                 CameraAt(BoxCenter(b), FrameDirection, "unit", OrbitMinDistance)]_vars

\* A model that the gizmo has made eight times larger has been framed
\* within the limits: the camera is at K * maxDim for its present size.
C16_Witness ==
  /\ currentModel # 0
  /\ modelInitialTransform.scale.den # 0
  /\ xform.scale = Frac(8 * modelInitialTransform.scale.num,
                        modelInitialTransform.scale.den)
  /\ cameraPosition.kind = "K"
  /\ LET size == BoxSize(WorldBox(xform, modelAsset[currentModel]))
     IN cameraPosition.n = Max3(size[1], size[2], size[3])
  /\ orbitTarget = BoxCenter(WorldBox(xform, modelAsset[currentModel]))

\* A step in which a model load succeeded.
LoadSucceeded ==
  \E id \in 1..Len(modelLoads) :
    modelLoads[id].status = "pending" /\ modelLoads'[id].status = "done"

\* C17: the snapshot is taken by a successful load and by nothing else; it
\* is the new model's transform as centring and scaling left it, no drag
\* and no auto-rotate frame having acted yet; while a model is current the
\* snapshot is that model's; and resetModelTransform, after any drags and
\* frames, makes position, rotation and scale equal to it.
C17_SnapshotOncePerLoad ==
  [][/\ LoadSucceeded =>
          /\ modelInitialTransform' = xform'
          /\ modelInitialTransform' = NormalizedTransform(modelAsset'[currentModel'])
     /\ ~LoadSucceeded => UNCHANGED modelInitialTransform
     /\ currentModel' # 0 =>
          /\ modelInitialTransform'.set
          /\ modelInitialTransform' = NormalizedTransform(modelAsset'[currentModel'])
     /\ (currentModel # 0 /\ ResetModelTransform) =>
          /\ xform'.position = modelInitialTransform.position
          /\ xform'.rotation = modelInitialTransform.rotation
          /\ xform'.scale = modelInitialTransform.scale]_vars

\* Drags and auto-rotate frames have changed the transform of the only
\* model loaded so far, the gizmo has been detached since, and a reset has
\* brought the transform back to the snapshot.
C17_Witness ==
  /\ currentModel # 0
  /\ LoadedModels = {currentModel}
  /\ edits = MaxEdits
  /\ gizmoObject = 0
  /\ xform = modelInitialTransform

\* C18: whenever disposeObject is called on a model, that model is no
\* longer a child of scene nor the object of the gizmo, and the model that
\* replaces it is not yet in the scene; nothing the subtree holds is
\* disposed while the subtree is in the scene.
C18_DisposedOnlyDetached ==
  /\ DOMAIN disposeObjectContext = ReplacedModels
  /\ \A m \in DOMAIN disposeObjectContext :
       /\ disposeObjectContext[m].scene = {}
       /\ disposeObjectContext[m].gizmo # m
  /\ \A e \in BagToSet(disposeLog) :
       (e.by = "disposeObject" /\ e.res.kind # "env") => ~e.live

\* The first model, which had geometry, has been replaced by the second
\* load: its geometry was disposed with the model out of the scene and the
\* gizmo detached, and the gizmo is on the new model.
C18_Witness ==
  /\ \E m \in ReplacedModels : disposeObjectContext[m].gizmo = 0
  /\ \E e \in BagToSet(disposeLog) :
       e.by = "disposeObject" /\ e.res.kind = "geom" /\ ~e.live
  /\ gizmoObject = currentModel
  /\ Len(modelLoads) = 2

\* The rescale rule for the model a successful load has just set up from
\* asset a: measured outside [0.1, 10], its largest dimension is now 3;
\* inside, its scale is the one it was loaded with.
RescaleRuleHolds(a) ==
  LET measured == LargestDimension(BoxOfAsset(a))
      after == WorldBox(xform', a)
  IN IF measured > RescaleAbove \/ measured < RescaleBelow
       THEN /\ ~after.nan
            /\ LargestDimension(after) = RescaleTarget
       ELSE xform'.scale = Frac(1, 1)

\* C19: every successful load obeys the rescale rule, whatever the size of
\* the loaded model, 0 included.
C19_RescaleRule ==
  [][LoadSucceeded => RescaleRuleHolds(modelAsset'[currentModel'])]_vars

\* C19 for the models whose largest dimension is not 0.
C19_RescaleRuleForPositiveSize ==
  [][(/\ LoadSucceeded
      /\ LargestDimension(BoxOfAsset(modelAsset'[currentModel'])) > 0) =>
       RescaleRuleHolds(modelAsset'[currentModel'])]_vars

\* C20: the gizmo is detached or bound to the current model, never to a
\* model that has been replaced.
C20_GizmoOnCurrentOrNothing ==
  /\ gizmoObject \in {0, currentModel}
  /\ gizmoObject \notin ReplacedModels

\* After a replacement and a mode switch the gizmo is on the second model,
\* the first having been disposed.
C20_Witness ==
  /\ ReplacedModels # {}
  /\ currentModel # 0
  /\ gizmoObject = currentModel
  /\ transformMode = "rotate"
  /\ \A m \in ReplacedModels : disposeObjectCalls[m] = 1

\* Environment textures an object of the scene graph points at now:
\* scene.environment and scene.background (0 = unset / the black Color).
SceneEnvTextures == {sceneEnvironment, sceneBackground} \ {0}

\* C21: in every reachable state scene.environment is currentHDRI (both
\* unset included), scene.background is the black colour or currentHDRI,
\* and dispose() was never called on a texture the scene references.
C21_SceneReferencesLiveCurrentHDRI ==
  /\ sceneEnvironment = currentHDRI
  /\ sceneBackground \in {0, currentHDRI}
  /\ \A t \in SceneEnvTextures : DisposeCount(Res("env", 0, t)) = 0

\* C21, the clauses on which texture the scene references alone.
C21_SceneTracksCurrentHDRI ==
  /\ sceneEnvironment = currentHDRI
  /\ sceneBackground \in {0, currentHDRI}

\* C22: when every issued model and environment load has had its success
\* or error callback run, the loading overlay is hidden.
C22_OverlayHiddenWhenIdle ==
  (Pending(modelLoads) = {} /\ Pending(envLoads) = {}) => ~loadingVisible

\* Every load the bound allows was issued and has settled, loads of both
\* kinds among them, some by success and some by error.
C22_Witness ==
  /\ LoadCount = MaxLoads
  /\ Pending(modelLoads) = {} /\ Pending(envLoads) = {}
  /\ \E l \in AllLoads : l.status = "done"
  /\ \E l \in AllLoads : l.status = "failed"
  /\ ~loadingVisible

====
